---------------------------- MODULE Spec2Model ----------------------------
(***************************************************************************)
(* A model of obspy.realtime.rttrace: the RtTrace accumulator (append,     *)
(* registerRtProcess) and the _splitTrace helper.                          *)
(*                                                                         *)
(* Time is counted in integer ticks (TicksPerSecond per second), sampling  *)
(* rates are whole numbers of Hz that divide TicksPerSecond by a multiple  *)
(* of ten, so that a tenth of a sample interval (the tolerance of the      *)
(* gap/overlap test) is a whole number of ticks and the comparisons of the *)
(* code are exact.  max_length is counted in quarter seconds, so that      *)
(* max_length * sampling_rate can end in .5 and int(x + 0.5) is exercised. *)
(***************************************************************************)
EXTENDS Integers, Sequences, FiniteSets, TLC

\* ------------------------------------------------------------------ bounds
\* Most calls of append and registerRtProcess the callers make on one
\* RtTrace.
MaxCalls == 4
\* Longest processing list the callers register.
MaxProcs == 2
\* Longest series handed to _splitTrace, in samples, and the largest num.
MaxSplitLen == 6
MaxSplitNum == 5

\* ------------------------------------------------------- time and headers
TicksPerSecond == 1000

None == "None"

\* An optional number or list is a sequence: <<>> for None, <<x>> for x
\* (max_length), the list itself for a list (rtmemory_list, never empty)
Nothing == <<>>

Period(sr) == TicksPerSecond \div sr

Max2(a, b) == IF a >= b THEN a ELSE b
Min2(a, b) == IF a <= b THEN a ELSE b
Abs(x) == IF x < 0 THEN -x ELSE x

\* Stats.endtime: starttime + (npts - 1) / sampling_rate, starttime if npts = 0
EndTime(st) ==
    IF st.npts = 0 THEN st.starttime
    ELSE st.starttime + (st.npts - 1) * Period(st.sampling_rate)

\* Trace.getId(): network.station.location.channel, here one string
GetId(st) == st.id

\* The header of Trace() built with header=None, and its empty float64 array
DefaultStats ==
    [id |-> "...", sampling_rate |-> 1, calib |-> 1, starttime |-> 0,
     npts |-> 0, processing |-> <<>>]

EmptyData == [dtype |-> "float64", samples |-> <<>>]

\* A Trace: header and data, the header's npts following the data
MkTrace(id, sr, calib, start, dtype, samples) ==
    [stats |-> [id |-> id, sampling_rate |-> sr, calib |-> calib,
                starttime |-> start, npts |-> Len(samples),
                processing |-> <<>>],
     data |-> [dtype |-> dtype, samples |-> samples]]


\* ------------------------------------------------- the predefined registry
\* REALTIME_PROCESS_FUNCTIONS: key -> (function, number of RtMemory objects)
Keys == {"scale", "integrate", "differentiate", "boxcar", "tauc",
         "mwpintegral"}

NumMemory(key) ==
    CASE key = "scale" -> 0
      [] key = "integrate" -> 1
      [] key = "differentiate" -> 1
      [] key = "boxcar" -> 1
      [] key = "tauc" -> 2
      [] key = "mwpintegral" -> 1

\* The characters of a key: strings are opaque to TLC, str.startswith is not
Chars(key) ==
    CASE key = "scale" -> <<"s", "c", "a", "l", "e">>
      [] key = "integrate" -> <<"i", "n", "t", "e", "g", "r", "a", "t", "e">>
      [] key = "differentiate" ->
           <<"d", "i", "f", "f", "e", "r", "e", "n", "t", "i", "a", "t", "e">>
      [] key = "boxcar" -> <<"b", "o", "x", "c", "a", "r">>
      [] key = "tauc" -> <<"t", "a", "u", "c">>
      [] key = "mwpintegral" ->
           <<"m", "w", "p", "i", "n", "t", "e", "g", "r", "a", "l">>

\* str.lower() on the characters the callers use
LowerChar(c) ==
    CASE c = "I" -> "i"
      [] c = "N" -> "n"
      [] c = "T" -> "t"
      [] c = "S" -> "s"
      [] c = "A" -> "a"
      [] c = "U" -> "u"
      [] c = "C" -> "c"
      [] OTHER -> c

Lower(name) == [i \in 1..Len(name) |-> LowerChar(name[i])]

\* key.startswith(process_name)
StartsWith(chars, prefix) ==
    /\ Len(prefix) <= Len(chars)
    /\ \A i \in 1..Len(prefix) : chars[i] = prefix[i]

\* The keyword arguments each function accepts besides trace and
\* rtmemory_list; any other keyword is a TypeError when it is called.
Keywords(key) ==
    CASE key = "scale" -> {"factor"}
      [] key = "integrate" -> {}
      [] key = "differentiate" -> {}
      [] key = "boxcar" -> {"width"}
      [] key = "tauc" -> {"width"}
      [] key = "mwpintegral" -> {"mem_time", "ref_time", "max_time", "gain"}

\* options: a set of <<keyword, value>> pairs
OptionNames(options) == {o[1] : o \in options}

OptionValue(options, kw, default) ==
    IF kw \in OptionNames(options)
    THEN (CHOOSE o \in options : o[1] = kw)[2]
    ELSE default

\* ------------------------------------------------------------- RtMemory
\* RtMemory(): not initialized, holding the last input and output sample
FreshMemory == [initialized |-> FALSE, input |-> 0, output |-> 0]

Free == "free"

Ids == 1..(2 * MaxProcs + 2)

\* The addresses the processing list refers to
UsedIds(procs) ==
    UNION {{procs[i].rtmemory_list[n] : n \in 1..Len(procs[i].rtmemory_list)} :
              i \in 1..Len(procs)}

\* RtMemory(): the allocator hands out an address no live object holds
NewId(used) == CHOOSE i \in Ids \ used : \A j \in Ids \ used : i <= j

\* Objects no list refers to any more are gone
Collect(hp, procs) ==
    [id \in Ids |-> IF id \in UsedIds(procs) THEN hp[id] ELSE Free]

\* --------------------------------------------- obspy.realtime.signal
\* The transform bodies, on integer samples.  Each reads and writes the
\* RtMemory objects it is handed and returns the processed samples.
RECURSIVE PrefixSum(_, _)
PrefixSum(s, i) == IF i = 0 THEN 0 ELSE s[i] + PrefixSum(s, i - 1)

AbsSamples(s) == [i \in 1..Len(s) |-> Abs(s[i])]

\* The sample before s[i], the first one taking `first`
Before(s, i, first) == IF i = 1 THEN first ELSE s[i - 1]

Remember(m, s, out) ==
    IF Len(s) = 0 THEN m
    ELSE [initialized |-> TRUE, input |-> s[Len(s)], output |-> out[Len(out)]]

\* scale: every sample times factor (default 1)
Scale(s, options) ==
    [i \in 1..Len(s) |-> s[i] * OptionValue(options, "factor", 1)]

\* integrate: the running sum, carried on from the last output in memory
Integrate(s, m) ==
    LET out == [i \in 1..Len(s) |-> m.output + PrefixSum(s, i)]
    IN  [out |-> out, mem |-> Remember(m, s, out)]

\* differentiate: the difference to the sample before, the last input of
\* the previous packet for the first one (the first sample itself when the
\* memory is fresh)
Differentiate(s, m) ==
    LET first == IF m.initialized THEN m.input ELSE s[1]
        out == [i \in 1..Len(s) |-> s[i] - Before(s, i, first)]
    IN  [out |-> out, mem |-> Remember(m, s, out)]

\* boxcar: the sum over a window of two samples, reaching back into the
\* previous packet through the memory
Boxcar(s, m) ==
    LET first == IF m.initialized THEN m.input ELSE 0
        out == [i \in 1..Len(s) |-> s[i] + Before(s, i, first)]
    IN  [out |-> out, mem |-> Remember(m, s, out)]

\* mwpIntegral: the running sum of the absolute values
MwpIntegral(s, m) ==
    LET out == [i \in 1..Len(s) |-> m.output + PrefixSum(AbsSamples(s), i)]
    IN  [out |-> out, mem |-> Remember(m, s, out)]

\* tauc: rtmemory_list[0] carries the running sum of the samples,
\* rtmemory_list[1] the running sum of the absolute differences; each is
\* read and written through its own list slot, the first before the second
Tauc(s, ids, hp) ==
    LET xx == Integrate(s, hp[ids[1]])
        hp1 == [hp EXCEPT ![ids[1]] = xx.mem]
        m2 == hp1[ids[2]]
        first == IF m2.initialized THEN m2.input ELSE s[1]
        diffs == [i \in 1..Len(s) |-> Abs(s[i] - Before(s, i, first))]
        dd == [i \in 1..Len(s) |-> m2.output + PrefixSum(diffs, i)]
        hp2 == [hp1 EXCEPT ![ids[2]] = Remember(m2, s, dd)]
    IN  [out |-> [i \in 1..Len(s) |-> xx.out[i] + dd[i]], heap |-> hp2]

\* One predefined function with one RtMemory
WithMemory(key, s, m) ==
    CASE key = "integrate" -> Integrate(s, m)
      [] key = "differentiate" -> Differentiate(s, m)
      [] key = "boxcar" -> Boxcar(s, m)
      [] key = "mwpintegral" -> MwpIntegral(s, m)

\* func(trace, rtmemory_list, **options): a keyword the function does not
\* take raises; the predefined functions keep the dtype of the samples
CallPredefined(key, d, ids, options, hp) ==
    IF ~(OptionNames(options) \subseteq Keywords(key))
    THEN [ok |-> FALSE, data |-> d, heap |-> hp]
    ELSE CASE key = "scale" ->
                [ok |-> TRUE, heap |-> hp,
                 data |-> [dtype |-> d.dtype,
                         samples |-> Scale(d.samples, options)]]
           [] key = "tauc" ->
                LET r == Tauc(d.samples, ids, hp)
                IN  [ok |-> TRUE, heap |-> r.heap,
                     data |-> [dtype |-> d.dtype, samples |-> r.out]]
           [] OTHER ->
                LET r == WithMemory(key, d.samples, hp[ids[1]])
                IN  [ok |-> TRUE, heap |-> [hp EXCEPT ![ids[1]] = r.mem],
                     data |-> [dtype |-> d.dtype, samples |-> r.out]]

\* The functions the callers give directly, by their names
NpAbs == <<"a", "b", "s">>
NpAsfarray == <<"a", "s", "f", "a", "r", "r", "a", "y">>

\* process_name(trace.data, **options) for a direct callable: np.abs, which
\* keeps the dtype, or np.asfarray, which returns the samples as float64
\* whatever they were; neither takes a keyword the callers pass
CallDirect(fn, d, options) ==
    IF options # {}
    THEN [ok |-> FALSE, data |-> d]
    ELSE IF fn = NpAsfarray
    THEN [ok |-> TRUE, data |-> [dtype |-> "float64", samples |-> d.samples]]
    ELSE [ok |-> TRUE,
          data |-> [dtype |-> d.dtype, samples |-> AbsSamples(d.samples)]]

\* ------------------------------------------------------------------ state
VARIABLES
    alive,               \* whether RtTrace.__init__ returned an object
    max_length,          \* self.max_length: <<>> or <<quarter seconds>>
    have_appended_data,  \* self.have_appended_data
    stats,               \* self.stats
    data,                \* self.data: dtype and samples
    processing,          \* self.processing: the registered entries, in order
    heap,                \* the RtMemory objects, by address
    calls,               \* the number of calls made on the object
    call,                \* the last call and its arguments
    ret,                 \* what the last call returned or raised, and for
                         \* append: the functions it called, each with
                         \* the data and the RtMemory it was handed and
                         \* the data it returned, its gap_or_overlap,
                         \* and have_appended_data at the call
    split                \* the trace given to _splitTrace and its result

vars == <<alive, max_length, have_appended_data, stats, data, processing,
          heap, calls, call, ret, split>>

\* What a call raised: the exception and what its message names
Raised(exc, why) == [error |-> exc, why |-> why]
NoError == [error |-> None, why |-> None]

\* ------------------------------------------------------- RtTrace.__init__
\* if max_length is not None and max_length < 0
MutOutOfBounds(ml) == ml # Nothing /\ ml[1] < 0

\* if max_length is not None and max_length <= 0
OutOfBounds(ml) == ml # Nothing /\ ml[1] <= 0

\* max_length <= 0 raises ValueError; else an empty trace with no header,
\* an empty processing list and no data appended
Construct(ml) ==
    /\ call = [op |-> "init", max_length |-> ml]
    /\ calls = 0
    /\ alive = ~OutOfBounds(ml)
    /\ ret = IF alive THEN [op |-> "init", raised |-> NoError]
             ELSE [op |-> "init", raised |-> Raised("ValueError", "max_length")]
    /\ max_length = IF alive THEN ml ELSE Nothing
    /\ have_appended_data = FALSE
    /\ stats = DefaultStats
    /\ data = EmptyData
    /\ processing = <<>>
    /\ heap = [id \in Ids |-> Free]

\* ------------------------------------------------- RtTrace.registerRtProcess
\* A process is a callable or a string: [callable, name], the name of a
\* string being its characters.
\* process_name = "%s" % process
MutProcessName(process) == process.name

\* process_name = ("%s" % process).lower()
ProcessName(process) ==
    IF process.callable THEN process.name ELSE Lower(process.name)

\* The keys the lookup can end on: the key equal to process_name, else the
\* first key in the dictionary's iteration order that starts with it.  The
\* order of a dict is not specified, so any key that starts with it can be
\* that first one.
Resolve(process) ==
    LET pn == ProcessName(process)
    IN  IF \E key \in Keys : Chars(key) = pn
        THEN {key \in Keys : Chars(key) = pn}
        ELSE {key \in Keys : StartsWith(Chars(key), pn)}

\* rtmemory_list = [RtMemory()]: a list of one, whatever num is
MutNewMemoryList(num, procs) ==
    IF num = 0 THEN Nothing ELSE <<NewId(UsedIds(procs))>>

\* rtmemory_list = [RtMemory()] * num: one new object, num references to it
NewMemoryList(num, procs) ==
    IF num = 0 THEN Nothing
    ELSE [n \in 1..num |-> NewId(UsedIds(procs))]

\* The entry (process_name, options, rtmemory_list) of a callable
DirectEntry(process, options) ==
    [callable |-> TRUE, process_name |-> process.name, options |-> options,
     rtmemory_list |-> Nothing]

\* The entry of a predefined function
PredefinedEntry(key, options, procs) ==
    [callable |-> FALSE, process_name |-> key, options |-> options,
     rtmemory_list |-> NewMemoryList(NumMemory(key), procs)]

\* Trace._addProcessingInfo: one more record in stats.processing
AddProcessingInfo(st, name, options) ==
    [st EXCEPT !.processing = Append(@, [name |-> name, options |-> options])]

\* The heap with the objects of a new entry in it
Allocate(hp, entry) ==
    IF entry.rtmemory_list = Nothing THEN hp
    ELSE [hp EXCEPT ![entry.rtmemory_list[1]] = FreshMemory]

\* registerRtProcess putting `entry` in front of the list
MutRegistered(entry) ==
    /\ processing' = <<entry>> \o processing
    /\ heap' = Allocate(heap, entry)
    /\ stats' = AddProcessingInfo(stats, entry.process_name, entry.options)
    /\ ret' = [op |-> "register", raised |-> NoError,
               value |-> Len(processing) + 1]

\* registerRtProcess adding `entry`
Registered(entry) ==
    /\ processing' = Append(processing, entry)
    /\ heap' = Allocate(heap, entry)
    /\ stats' = AddProcessingInfo(stats, entry.process_name, entry.options)
    /\ ret' = [op |-> "register", raised |-> NoError,
               value |-> Len(processing) + 1]

\* registerRtProcess(process, **options)
RegisterRtProcess(process, options) ==
    /\ alive
    /\ calls' = calls + 1
    /\ call' = [op |-> "register", process |-> process, options |-> options]
    /\ IF process.callable
       THEN Registered(DirectEntry(process, options))
       ELSE IF Resolve(process) = {}
       THEN /\ ret' = [op |-> "register",
                       raised |-> Raised("NotImplementedError", "process"),
                       value |-> 0]
            /\ UNCHANGED <<processing, heap, stats>>
       ELSE \E key \in Resolve(process) :
                Registered(PredefinedEntry(key, options, processing))
    /\ UNCHANGED <<alive, max_length, have_appended_data, data>>

\* ----------------------------------------------------------- RtTrace.append
\* '>f4' and '<f4' data is converted to float32 before anything else
NormalizeDtype(d) ==
    IF d.dtype \in {">f4", "<f4"} THEN [d EXCEPT !.dtype = "float32"] ELSE d

\* The sanity checks with the one of calib left out
MutHeaderMismatch(st, d, trace) ==
    CASE GetId(st) # GetId(trace.stats) -> "id"
      [] st.sampling_rate # trace.stats.sampling_rate -> "sampling_rate"
      [] d.dtype # trace.data.dtype -> "dtype"
      [] OTHER -> None

\* The sanity checks, in the order of the code: what differs first, or None
HeaderMismatch(st, d, trace) ==
    CASE GetId(st) # GetId(trace.stats) -> "id"
      [] st.sampling_rate # trace.stats.sampling_rate -> "sampling_rate"
      [] st.calib # trace.stats.calib -> "calib"
      [] d.dtype # trace.data.dtype -> "dtype"
      [] OTHER -> None

\* diff = trace.stats.starttime - self.stats.endtime, in ticks
Diff(st, trace) == trace.stats.starttime - EndTime(st)

\* delta = diff * sr - 1.0, in samples times TicksPerSecond
Delta(st, trace) == Diff(st, trace) * st.sampling_rate - TicksPerSecond

\* delta < -0.1
IsOverlap(st, trace) == 10 * Delta(st, trace) < -TicksPerSecond

\* delta >= 0.1
MutIsGap(st, trace) == 10 * Delta(st, trace) >= TicksPerSecond

\* delta > 0.1
IsGap(st, trace) == 10 * Delta(st, trace) > TicksPerSecond

\* The start time left as it is
MutKeepStart(st, trace) == st

\* self.stats.starttime = self.stats.starttime + diff
MutCorrectStart(st, trace) ==
    [st EXCEPT !.starttime = @ + Diff(st, trace)]

\* self.stats.starttime = self.stats.starttime + diff - 1.0 / sr
CorrectStart(st, trace) ==
    [st EXCEPT !.starttime = @ + Diff(st, trace) - Period(st.sampling_rate)]

\* rtmemory_list[n] = RtMemory() for every n of entry i, one after the other
RECURSIVE ResetMemory(_, _, _, _)
ResetMemory(procs, hp, i, n) ==
    IF n > Len(procs[i].rtmemory_list)
    THEN [processing |-> procs, heap |-> hp]
    ELSE LET id == NewId(UsedIds(procs))
             procs1 == [procs EXCEPT ![i].rtmemory_list[n] = id]
         IN  ResetMemory(procs1,
                         Collect([hp EXCEPT ![id] = FreshMemory], procs1),
                         i, n + 1)

\* The RtMemory objects of a list as the function sees them when called
Seen(ids, hp) == [n \in 1..Len(ids) |-> hp[ids[n]]]

\* The entry applied to trace.data: the direct call or the predefined one
CallEntry(entry, d, hp) ==
    IF entry.callable
    THEN CallDirect(entry.process_name, d, entry.options) @@ [heap |-> hp]
    ELSE CallPredefined(entry.process_name, d, entry.rtmemory_list,
                        entry.options, hp)

\* The state of the loop after entry i was called with result `out`, the
\* result not being assigned to trace.data
MutApplied(i, run, mem, out) ==
    [processing |-> mem.processing, heap |-> out.heap, data |-> run.data,
     failed |-> ~out.ok, gap_or_overlap |-> run.gap_or_overlap,
     invoked |-> Append(run.invoked,
                        [entry |-> i, input |-> run.data, output |-> out.data,
                         memory |-> Seen(mem.processing[i].rtmemory_list,
                                         mem.heap)])]

\* The state of the loop after entry i was called on trace.data with
\* result `out`, which is assigned to trace.data
Applied(i, run, mem, out) ==
    [processing |-> mem.processing, heap |-> out.heap, data |-> out.data,
     failed |-> ~out.ok, gap_or_overlap |-> run.gap_or_overlap,
     invoked |-> Append(run.invoked,
                        [entry |-> i, input |-> run.data, output |-> out.data,
                         memory |-> Seen(mem.processing[i].rtmemory_list,
                                         mem.heap)])]

\* One turn of `for proc in self.processing`, the memory of the entry being
\* `mem` by now
ApplyWith(i, run, mem) ==
    Applied(i, run, mem, CallEntry(mem.processing[i], run.data, mem.heap))

\* One turn of the loop that keeps the memory of the entry on a gap or
\* overlap
MutApplyEntry(i, gap_or_overlap, run) ==
    ApplyWith(i, run, [processing |-> run.processing, heap |-> run.heap])

\* One turn of the loop that renews the memory of the entry on every
\* append: `if rtmemory_list != None`
MutRenewEntry(i, gap_or_overlap, run) ==
    ApplyWith(i, run,
              IF run.processing[i].rtmemory_list # Nothing
              THEN ResetMemory(run.processing, run.heap, i, 1)
              ELSE [processing |-> run.processing, heap |-> run.heap])

\* One turn of `for proc in self.processing`: the memory of the entry is
\* renewed on a gap or overlap, then the entry is applied to trace.data
ApplyEntry(i, gap_or_overlap, run) ==
    ApplyWith(i, run,
              IF gap_or_overlap /\ run.processing[i].rtmemory_list # Nothing
              THEN ResetMemory(run.processing, run.heap, i, 1)
              ELSE [processing |-> run.processing, heap |-> run.heap])

\* The loop over self.processing from entry i on; an exception ends it
RECURSIVE RunProcessing(_, _, _)
RunProcessing(i, gap_or_overlap, run) ==
    IF i > Len(run.processing) \/ run.failed THEN run
    ELSE RunProcessing(i + 1, gap_or_overlap,
                       ApplyEntry(i, gap_or_overlap, run))

\* Trace.__add__(self, trace, method=0, interpolation_samples=0,
\* fill_value='latest', sanity_checks=True): the sanity checks compare the
\* data types once more, now of the processed packet; the sum is the
\* buffer's samples followed by the packet's
AddTraces(st, d, trace) ==
    IF d.dtype # trace.data.dtype
    THEN [ok |-> FALSE, data |-> d, npts |-> st.npts]
    ELSE [ok |-> TRUE,
          data |-> [dtype |-> d.dtype,
                    samples |-> d.samples \o trace.data.samples],
          npts |-> Len(d.samples) + Len(trace.data.samples)]

\* round() of a / b for a >= 0, b > 0
RoundDiv(a, b) == (2 * a + b) \div (2 * b)

\* Trace._ltrim(starttime, pad=False, nearest_sample=True): drops the
\* samples before the sample nearest to starttime
Ltrim(st, d, starttime) ==
    LET delta == RoundDiv(Max2(starttime - st.starttime, 0),
                          Period(st.sampling_rate))
        kept == SubSeq(d.samples, delta + 1, Len(d.samples))
    IN  [stats |-> [st EXCEPT
                      !.starttime = @ + delta * Period(st.sampling_rate),
                      !.npts = Len(kept)],
         data |-> [d EXCEPT !.samples = kept]]

\* max_samples = int(self.max_length * self.stats.sampling_rate)
MutMaxSamples(ml, sr) == (ml * sr) \div 4

\* max_samples = int(self.max_length * self.stats.sampling_rate + 0.5),
\* max_length being counted in quarter seconds
MaxSamples(ml, sr) == (ml * sr + 2) \div 4

\* The left trim at the end of append
TrimToMaxLength(ml, st, d) ==
    IF ml # Nothing /\ Len(d.samples) > MaxSamples(ml[1], st.sampling_rate)
    THEN Ltrim(st, d,
               st.starttime
                 + (Len(d.samples) - MaxSamples(ml[1], st.sampling_rate))
                     * Period(st.sampling_rate))
    ELSE [stats |-> st, data |-> d]

\* The checks made on every append, the first one too
MutChecksApply == TRUE

\* `if self.have_appended_data:` before the sanity checks and before the
\* check of the times
ChecksApply == have_appended_data

\* What one call of append leaves behind
Outcome(raised, st, d, procs, hp, have, trace, run) ==
    [raised |-> raised, stats |-> st, data |-> d, processing |-> procs,
     heap |-> hp, have_appended_data |-> have, trace |-> trace,
     invoked |-> run.invoked, gap_or_overlap |-> run.gap_or_overlap]

\* A raise before anything was changed
Rejected(why, trace) ==
    Outcome(Raised("TypeError", why), stats, data, processing, heap,
            have_appended_data, trace,
            [invoked |-> <<>>, gap_or_overlap |-> FALSE])

\* gap_or_overlap after the check of the times
GapOrOverlap(trace) ==
    ChecksApply /\ (IsOverlap(stats, trace) \/ IsGap(stats, trace))

\* self.stats after the check of the times: on data that follows the
\* buffer the start time is corrected
TimedStats(trace) ==
    IF ChecksApply /\ ~GapOrOverlap(trace)
    THEN CorrectStart(stats, trace) ELSE stats

\* The left trim done, append returns the processed trace
Trimmed(run, processed, t) ==
    Outcome(NoError, t.stats, t.data, run.processing, run.heap, TRUE,
            processed, run)

\* Trace.__add__ done, with self.stats.__setitem__('npts', ..) left out
MutSummed(st1, run, processed, sum) ==
    IF ~sum.ok
    THEN Outcome(Raised("TypeError", "sum"), st1, data, run.processing,
                 run.heap, have_appended_data, processed, run)
    ELSE Trimmed(run, processed, TrimToMaxLength(max_length, st1, sum.data))

\* Trace.__add__ done: its TypeError leaves the buffer as it was but for
\* the corrected start time; else the sum becomes the buffer and is trimmed
Summed(st1, run, processed, sum) ==
    IF ~sum.ok
    THEN Outcome(Raised("TypeError", "sum"), st1, data, run.processing,
                 run.heap, have_appended_data, processed, run)
    ELSE Trimmed(run, processed,
                 TrimToMaxLength(max_length, [st1 EXCEPT !.npts = sum.npts],
                                 sum.data))

\* The processing loop done, with `processed` the trace it leaves: an
\* exception of a function ends append; the first data becomes the buffer;
\* other data is added to it
Merged(st1, run, processed) ==
    IF run.failed
    THEN Outcome(Raised("TypeError", "process"), st1, data, run.processing,
                 run.heap, have_appended_data, processed, run)
    ELSE IF ~have_appended_data
    THEN Outcome(NoError, processed.stats, run.data, run.processing,
                 run.heap, TRUE, processed, run)
    ELSE Summed(st1, run, processed, AddTraces(st1, data, processed))

\* The processing loop done
Processed(trace, st1, run) ==
    Merged(st1, run, [trace EXCEPT !.data = run.data])

\* append from the sanity checks on, trace.data being converted
Checked(trace, gap_overlap_check) ==
    IF ChecksApply /\ HeaderMismatch(stats, data, trace) # None
    THEN Rejected(HeaderMismatch(stats, data, trace), trace)
    ELSE IF ChecksApply /\ IsOverlap(stats, trace) /\ gap_overlap_check
    THEN Rejected("overlap", trace)
    ELSE IF ChecksApply /\ IsGap(stats, trace) /\ gap_overlap_check
    THEN Rejected("gap", trace)
    ELSE Processed(trace, TimedStats(trace),
                   RunProcessing(1, GapOrOverlap(trace),
                                 [processing |-> processing, heap |-> heap,
                                  data |-> trace.data, failed |-> FALSE,
                                  gap_or_overlap |-> GapOrOverlap(trace),
                                  invoked |-> <<>>]))

\* append(trace, gap_overlap_check) on the current state, statement by
\* statement: dtype conversion, sanity checks, the check of the times with
\* the correction of the start time, the processing loop, then the first
\* data or the sum with the left trim
AppendOutcome(packet, gap_overlap_check) ==
    Checked([packet EXCEPT !.data = NormalizeDtype(@)], gap_overlap_check)

\* The object and the result of append after it ended with outcome o
Returned(o) ==
    /\ ret' = [op |-> "append", raised |-> o.raised, trace |-> o.trace,
               invoked |-> o.invoked, gap_or_overlap |-> o.gap_or_overlap,
               seeded |-> have_appended_data]
    /\ stats' = o.stats
    /\ data' = o.data
    /\ processing' = o.processing
    /\ heap' = o.heap
    /\ have_appended_data' = o.have_appended_data

\* def append(self, trace, gap_overlap_check=False, verbose=False): the
\* value of gap_overlap_check when the caller passes none
DefaultGapOverlapCheck == FALSE

\* append(trace, gap_overlap_check)
RtTraceAppend(packet, gap_overlap_check) ==
    /\ alive
    /\ calls' = calls + 1
    /\ call' = [op |-> "append", trace |-> packet,
                gap_overlap_check |-> gap_overlap_check]
    /\ Returned(AppendOutcome(packet, gap_overlap_check))
    /\ UNCHANGED <<alive, max_length>>

\* -------------------------------------------------------------- _splitTrace
\* Trace._rtrim(endtime, pad=False, nearest_sample=True): drops the samples
\* after the sample nearest to endtime; an end past the data drops nothing
Rtrim(st, d, endtime) ==
    LET last == RoundDiv(Max2(endtime - st.starttime, 0),
                         Period(st.sampling_rate)) + 1
        kept == SubSeq(d.samples, 1, Min2(last, Len(d.samples)))
    IN  [stats |-> [st EXCEPT !.npts = Len(kept)],
         data |-> [d EXCEPT !.samples = kept]]

\* The part of a trace that is left of it after _ltrim
Rtrimmed(t, endtime) == Rtrim(t.stats, t.data, endtime)

\* Trace.slice(starttime, endtime): the samples from starttime to endtime,
\* both included; a start past the data leaves an empty trace that starts
\* there
Slice(trace, starttime, endtime) ==
    Rtrimmed(Ltrim(trace.stats, trace.data, starttime), endtime)

\* packet_length = total_length // num in both cases
MutPacketLength(total_length, num) == total_length \div num

\* packet_length: the samples of a slice less one
PacketLength(total_length, num) ==
    IF total_length % num # 0
    THEN total_length \div num
    ELSE (total_length \div num) - 1

\* tstart of the i-th turn when each turn moves it to tend
MutSplitStart(trace, num, i) ==
    trace.stats.starttime
      + (i - 1) * PacketLength(Len(trace.data.samples), num)
          * Period(trace.stats.sampling_rate)

\* tstart of the i-th turn of the loop: each turn moves it to tend + delta
SplitStart(trace, num, i) ==
    trace.stats.starttime
      + (i - 1) * (PacketLength(Len(trace.data.samples), num) + 1)
          * Period(trace.stats.sampling_rate)

\* _splitTrace(trace, num): num slices from tstart to
\* tend = tstart + delta * packet_length, one after the other
SplitTrace(trace, num) ==
    [i \in 1..num |->
        Slice(trace, SplitStart(trace, num, i),
              SplitStart(trace, num, i)
                + PacketLength(Len(trace.data.samples), num)
                    * Period(trace.stats.sampling_rate))]

\* -------------------------------------------------------------- callers
\* The start time of a packet that begins `tenths` tenths of a sample
\* interval after the end of the buffer (the first packet begins at 0)
StartAfter(tenths) ==
    IF have_appended_data
    THEN EndTime(stats) + tenths * (Period(stats.sampling_rate) \div 10)
    ELSE 0

\* max_length as the callers construct with it: none, 0.25 s, 0.75 s, 2 s,
\* and values __init__ refuses
MaxLengths == {Nothing, <<1>>, <<3>>, <<8>>, <<0>>, <<-2>>}

\* The channel of the stream: id, sampling rate, calib; its packets hold
\* big-endian float32 samples
Channel == <<"BW.RJOB..EHZ", 2, 1>>

\* The channel of the buffer once it has data
Current ==
    IF have_appended_data
    THEN <<GetId(stats), stats.sampling_rate, stats.calib>>
    ELSE Channel

\* Sample arrays of the packets
Samples == {<<1>>, <<2, 1>>}

\* Starts of the packets, in tenths of a sample interval after the end of
\* the buffer: 10 is the next sample, 9 and 11 are the edges of the
\* tolerance, 8 and 12 an overlap and a gap of 0.2 samples
Tenths == {8, 9, 10, 11, 12}

\* Packets of the stream
Packets ==
    {MkTrace(Current[1], Current[2], Current[3], StartAfter(k), ">f4", s) :
        k \in Tenths, s \in Samples}

\* Packets that differ from the stream's in one field of the header, sent
\* after a gap once the buffer has data
Strangers ==
    IF ~have_appended_data THEN {}
    ELSE {MkTrace("BW.RJOB..EHN", Current[2], Current[3], StartAfter(12),
                  ">f4", <<1>>),
          MkTrace(Current[1], 1, Current[3], StartAfter(12), ">f4", <<1>>),
          MkTrace(Current[1], Current[2], 2, StartAfter(12), ">f4", <<1>>),
          MkTrace(Current[1], Current[2], Current[3], StartAfter(12),
                  "int32", <<1>>)}

\* The samples lo, lo + 1, .., hi
Ramp(lo, hi) == [i \in 1..(hi - lo + 1) |-> lo + i - 1]

\* A long stream for an RtTrace of 2 s with nothing registered: 150
\* samples at 100 Hz, then the next 100 samples
LongPackets ==
    IF max_length # <<8>> \/ processing # <<>> THEN {}
    ELSE IF ~have_appended_data
    THEN {MkTrace(Channel[1], 100, Channel[3], 0, ">f4", Ramp(1, 150))}
    ELSE IF stats.sampling_rate = 100 /\ stats.npts = 150
    THEN {MkTrace(Current[1], 100, Current[3], StartAfter(10), ">f4",
                  Ramp(151, 250))}
    ELSE {}

\* What the callers register: "Int" for integrate and "tauc", with no
\* option or with an option neither function takes
Processes ==
    {[callable |-> FALSE, name |-> <<"I", "n", "t">>],
     [callable |-> FALSE, name |-> <<"t", "a", "u", "c">>]}

OptionSets == {{}, {<<"factor", 2>>}}

\* No trace is being split
NoSplit == [num |-> 0]

Init ==
    /\ \E ml \in MaxLengths : Construct(ml)
    /\ split = NoSplit

\* append(packet): gap_overlap_check left at its default
AppendPacket ==
    /\ calls < MaxCalls
    /\ \E packet \in Packets : RtTraceAppend(packet, DefaultGapOverlapCheck)
    /\ UNCHANGED split

\* append(packet, gap_overlap_check=True) of a one-sample packet
AppendChecked ==
    /\ calls < MaxCalls
    /\ \E packet \in {p \in Packets : p.stats.npts = 1} :
           RtTraceAppend(packet, TRUE)
    /\ UNCHANGED split

\* append of a packet of another channel or dtype
AppendStranger ==
    /\ calls < MaxCalls
    /\ \E packet \in Strangers, check \in BOOLEAN :
           RtTraceAppend(packet, check)
    /\ UNCHANGED split

\* append of the packets of the long stream
AppendLong ==
    /\ calls < MaxCalls
    /\ \E packet \in LongPackets :
           RtTraceAppend(packet, DefaultGapOverlapCheck)
    /\ UNCHANGED split

\* registerRtProcess, up to MaxProcs times
Register ==
    /\ calls < MaxCalls
    /\ Len(processing) < MaxProcs
    /\ \E process \in Processes, options \in OptionSets :
           RegisterRtProcess(process, options)
    /\ UNCHANGED split

\* ----------------------------------------- callers: split and re-assemble
\* The sampling rates of the traces that are split
SplitRates == {1, 2}

\* The traces that are split: 1, 2, .., L from time 0
SplitSources ==
    {MkTrace(Channel[1], sr, Channel[3], 0, "float64", Ramp(1, L)) :
        sr \in SplitRates, L \in 1..MaxSplitLen}

InitSplit ==
    /\ Construct(Nothing)
    /\ split = NoSplit

\* traces = _splitTrace(data_trace, num)
SplitCall ==
    /\ split = NoSplit
    /\ \E trace \in SplitSources, num \in 1..MaxSplitNum :
           split' = [num |-> num, trace |-> trace,
                     traces |-> SplitTrace(trace, num), fed |-> 0]
    /\ UNCHANGED <<alive, max_length, have_appended_data, stats, data,
                   processing, heap, calls, call, ret>>

\* One turn of `for tr in traces: rt_trace.append(tr,
\* gap_overlap_check=True)`; an exception ends the loop
Feed ==
    /\ split.num > 0
    /\ split.fed < split.num
    /\ ret.raised = NoError
    /\ RtTraceAppend(split.traces[split.fed + 1], TRUE)
    /\ split' = [split EXCEPT !.fed = @ + 1]

NextSplit == SplitCall \/ Feed

SpecSplit == InitSplit /\ [][NextSplit]_vars

\* ------------------------------------------- callers: a mixed registry
\* What these callers register: predefined functions by their name, in
\* another case, by a prefix, "scale" with its factor, np.abs and
\* np.asfarray themselves, a name no key starts with, and the empty string
Registrations ==
    {[process |-> [callable |-> FALSE, name |-> Chars("integrate")],
      options |-> {}],
     [process |-> [callable |-> FALSE, name |-> <<"I", "n", "t">>],
      options |-> {}],
     [process |-> [callable |-> FALSE, name |-> <<"T", "A", "U", "C">>],
      options |-> {}],
     [process |-> [callable |-> FALSE, name |-> Chars("scale")],
      options |-> {<<"factor", 2>>}],
     [process |-> [callable |-> TRUE, name |-> NpAbs], options |-> {}],
     [process |-> [callable |-> TRUE, name |-> NpAsfarray], options |-> {}],
     [process |-> [callable |-> FALSE, name |-> <<"x", "y", "z">>],
      options |-> {}],
     [process |-> [callable |-> FALSE, name |-> <<>>], options |-> {}]}

\* The dtype of the packets of their stream
RegistryDtypes == {"float64", "int32"}

\* Their packets: 1, 2, 3 at 1 Hz, following the buffer or after a gap of
\* 0.2 sample intervals
RegistryPackets ==
    {MkTrace(Channel[1], 1, Channel[3], StartAfter(k), dtype, <<1, 2, 3>>) :
        k \in {10, 12}, dtype \in RegistryDtypes}

InitRegistry ==
    /\ Construct(Nothing)
    /\ split = NoSplit

\* registerRtProcess(process, **options)
RegisterAny ==
    /\ calls < MaxCalls
    /\ Len(processing) < MaxProcs
    /\ \E r \in Registrations : RegisterRtProcess(r.process, r.options)
    /\ UNCHANGED split

\* append(packet, gap_overlap_check), which raises on the gap when the
\* check is on
AppendAny ==
    /\ calls < MaxCalls
    /\ \E packet \in RegistryPackets, check \in BOOLEAN :
           RtTraceAppend(packet, check)
    /\ UNCHANGED split

NextRegistry == RegisterAny \/ AppendAny

SpecRegistry == InitRegistry /\ [][NextRegistry]_vars

Next ==
    AppendPacket \/ AppendChecked \/ AppendStranger \/ AppendLong \/ Register

Spec == Init /\ [][Next]_vars

\* ------------------------------------------------------------------ claims
\* What the sanity checks of append name when they raise
HeaderFields == {"id", "sampling_rate", "calib", "dtype"}

\* Ten times delta = (packet start - buffer end) * sampling_rate - 1 of a
\* packet against the buffer as it is, in samples times TicksPerSecond
TenDelta(packet) ==
    10 * ((packet.stats.starttime - EndTime(stats)) * stats.sampling_rate
            - TicksPerSecond)

\* delta < -0.1 and delta > 0.1
Early(packet) == TenDelta(packet) < -TicksPerSecond
Late(packet) == TenDelta(packet) > TicksPerSecond

\* The packet has the id, sampling rate, calib and, once converted, the
\* dtype of the buffer
SameChannel(packet) ==
    /\ packet.stats.id = stats.id
    /\ packet.stats.sampling_rate = stats.sampling_rate
    /\ packet.stats.calib = stats.calib
    /\ data.dtype = IF packet.data.dtype \in {">f4", "<f4"}
                    THEN "float32" ELSE packet.data.dtype

\* C1: after every successful append, the first one included, the buffer
\* of an RtTrace built with max_length M holds at most
\* round(M * sampling_rate) samples.
C1_CountWithinMaxLength ==
    (ret.op = "append" /\ ret.raised = NoError /\ max_length # Nothing)
        => Len(data.samples)
             <= (max_length[1] * stats.sampling_rate + 2) \div 4

\* C2: an append that raises before the merge (a header mismatch, a gap or
\* overlap with gap_overlap_check on, an exception of a registered
\* function) leaves the samples, the header with its start time and sample
\* count, and have_appended_data as they were.
C2_FailureLeavesBuffer ==
    [][(/\ call'.op = "append"
        /\ ret'.raised.why \in HeaderFields \cup {"overlap", "gap", "process"})
          => UNCHANGED <<data, stats, have_appended_data>>]_vars

\* C3: on a buffer with data and with gap_overlap_check on, a packet of the
\* buffer's channel raises the overlap error when delta < -0.1, the gap
\* error when delta > 0.1, and neither when -0.1 <= delta <= 0.1.
C3_StrictThresholds ==
    [][(/\ call'.op = "append"
        /\ have_appended_data
        /\ call'.gap_overlap_check
        /\ SameChannel(call'.trace))
          => /\ Early(call'.trace)
                  => ret'.raised = Raised("TypeError", "overlap")
             /\ Late(call'.trace)
                  => ret'.raised = Raised("TypeError", "gap")
             /\ (~Early(call'.trace) /\ ~Late(call'.trace))
                  => ret'.raised.why \notin {"overlap", "gap"}]_vars

\* The second call, with gap_overlap_check on, added a packet that began
\* 1.1 sample intervals after the end of the first: delta = 0.1
C3_Witness ==
    /\ calls = 2
    /\ ret.op = "append"
    /\ ret.seeded
    /\ call.gap_overlap_check
    /\ ret.raised = NoError
    /\ stats.starttime = Period(stats.sampling_rate) \div 10

\* C4: on a buffer with data and with gap_overlap_check off, a packet of
\* the buffer's channel with delta > 0.1 or delta < -0.1 raises no gap or
\* overlap error (and no error at all when every registered function takes
\* its options), and every function called is handed RtMemory objects that
\* are all fresh.
C4_ResetBeforeTransform ==
    [][(/\ call'.op = "append"
        /\ have_appended_data
        /\ ~call'.gap_overlap_check
        /\ SameChannel(call'.trace)
        /\ (Early(call'.trace) \/ Late(call'.trace)))
          => /\ ret'.raised.why \notin HeaderFields \cup {"overlap", "gap"}
             /\ (\A i \in 1..Len(processing) : processing[i].options = {})
                  => ret'.raised = NoError
             /\ \A k \in 1..Len(ret'.invoked) :
                  \A n \in 1..Len(ret'.invoked[k].memory) :
                     ret'.invoked[k].memory[n] = FreshMemory]_vars

\* An append after a gap or overlap went through with a function that
\* owns RtMemory called
C4_Witness ==
    /\ ret.op = "append"
    /\ ret.seeded
    /\ ~call.gap_overlap_check
    /\ ret.gap_or_overlap
    /\ ret.raised = NoError
    /\ \E k \in 1..Len(ret.invoked) : ret.invoked[k].memory # <<>>

\* C5: for every trace of L >= 1 samples and every num >= 1, appending the
\* traces of _splitTrace(trace, num) in order, gap_overlap_check on, to a
\* new RtTrace with nothing registered and no max_length raises no error
\* and leaves the samples of the trace.
C5_SplitRoundTrip ==
    /\ split.num > 0 => ret.raised = NoError
    /\ (split.num > 0 /\ split.fed = split.num)
          => data.samples = split.trace.data.samples

\* C6: the first append makes no sanity check and no check of the times,
\* whatever gap_overlap_check is: it raises no header, gap or overlap
\* error, and when it returns the header of the buffer is the packet's,
\* the samples are the packet's after the registered functions, and
\* have_appended_data is set.
C6_FirstAppendSeeds ==
    [][(call'.op = "append" /\ ~have_appended_data)
          => /\ ret'.raised.why \notin HeaderFields \cup {"overlap", "gap"}
             /\ ret'.raised = NoError
                  => /\ have_appended_data'
                     /\ stats' = call'.trace.stats
                     /\ data'.samples = ret'.trace.data.samples
                     /\ processing = <<>>
                          => data'.samples = call'.trace.data.samples]_vars

\* A first append with gap_overlap_check on went through a function
C6_Witness ==
    /\ ret.op = "append"
    /\ ~ret.seeded
    /\ call.gap_overlap_check
    /\ ret.raised = NoError
    /\ have_appended_data
    /\ ret.invoked # <<>>

\* C7: on a buffer with data, a packet that differs in id, sampling rate,
\* calib or dtype raises the error of the sanity checks, and nothing else
\* has happened by then: no gap or overlap found, no start time corrected,
\* no RtMemory renewed, no function called.
C7_HeaderCheckedFirst ==
    [][(/\ call'.op = "append"
        /\ have_appended_data
        /\ ~SameChannel(call'.trace))
          => /\ ret'.raised.error = "TypeError"
             /\ ret'.raised.why \in HeaderFields
             /\ ret'.invoked = <<>>
             /\ ~ret'.gap_or_overlap
             /\ UNCHANGED <<stats, data, processing, heap,
                            have_appended_data>>]_vars

\* A packet of another calib, sent after a gap with gap_overlap_check on
\* to an RtTrace with a function registered, was refused for its calib
C7_Witness ==
    /\ ret.op = "append"
    /\ ret.seeded
    /\ call.gap_overlap_check
    /\ processing # <<>>
    /\ ret.raised = Raised("TypeError", "calib")

\* C8: when a packet that follows the buffer (-0.1 <= delta <= 0.1) has
\* been added and the n samples then held are more than
\* max_samples = round(max_length * sampling_rate), append leaves the last
\* max_samples of them and the start time is the time of the sample at
\* index n - max_samples of the untrimmed series; when n <= max_samples
\* nothing is dropped.  At 100 Hz with max_length 2 s, 150 samples then 100
\* more leave 200, from index 50 on.
C8_LeftTrim ==
    [][(/\ call'.op = "append"
        /\ have_appended_data
        /\ max_length # Nothing
        /\ ret'.raised = NoError
        /\ ~Early(call'.trace)
        /\ ~Late(call'.trace))
          => LET series == data.samples \o ret'.trace.data.samples
                 n == Len(series)
                 max_samples ==
                     (max_length[1] * stats.sampling_rate + 2) \div 4
                 first == call'.trace.stats.starttime
                            - Len(data.samples) * Period(stats.sampling_rate)
             IN  IF n > max_samples
                 THEN /\ data'.samples = SubSeq(series, n - max_samples + 1, n)
                      /\ Len(data'.samples) = max_samples
                      /\ stats'.npts = max_samples
                      /\ stats'.starttime
                           = first + (n - max_samples)
                                       * Period(stats.sampling_rate)
                 ELSE /\ data'.samples = series
                      /\ stats'.npts = n
                      /\ stats'.starttime = first]_vars

\* 100 Hz, max_length 2 s: 150 samples, then the next 100, leave the 200
\* samples from index 50 on, which is 0.5 s after the start
C8_Witness ==
    /\ max_length = <<8>>
    /\ stats.sampling_rate = 100
    /\ ret.op = "append"
    /\ ret.seeded
    /\ ret.raised = NoError
    /\ call.trace.stats.npts = 100
    /\ Len(data.samples) = 200
    /\ data.samples[1] = 51
    /\ stats.starttime = 50 * Period(100)

\* C9: after every successful append the end time of the buffer is the
\* end time of the packet just appended.
C9_EndIsPacketEnd ==
    (ret.op = "append" /\ ret.raised = NoError)
        => EndTime(stats) = EndTime(call.trace.stats)

\* C10: the RtMemory objects of the registered entries are all different
\* objects: the two of "tauc" are not one object, and no object is in the
\* lists of two entries.
C10_SlotsIndependent ==
    \A i, j \in 1..Len(processing) :
        \A n \in 1..Len(processing[i].rtmemory_list),
           m \in 1..Len(processing[j].rtmemory_list) :
            (i # j \/ n # m)
                => processing[i].rtmemory_list[n]
                     # processing[j].rtmemory_list[m]

\* The number of RtMemory objects each predefined function is declared with
DeclaredArity(name) ==
    CASE name = "tauc" -> 2
      [] name \in {"integrate", "differentiate", "boxcar", "mwpintegral"} -> 1
      [] name = "scale" -> 0

\* C11: in every state each entry of the processing list has as many
\* RtMemory slots as its function is declared with (one for integrate,
\* differentiate, boxcar and mwpintegral, two for tauc, none for scale and
\* for a function given directly), after registerRtProcess and after any
\* number of resets on a gap or overlap.
C11_ArityKept ==
    \A i \in 1..Len(processing) :
        Len(processing[i].rtmemory_list)
          = IF processing[i].callable THEN 0
            ELSE DeclaredArity(processing[i].process_name)

\* "tauc" is registered and an append after a gap has renewed its memory
C11_Witness ==
    /\ ret.op = "append"
    /\ ret.gap_or_overlap
    /\ ret.raised = NoError
    /\ \E i \in 1..Len(processing) :
          /\ ~processing[i].callable
          /\ processing[i].process_name = "tauc"
          /\ Len(processing[i].rtmemory_list) = 2
          /\ processing[i].rtmemory_list[1] # processing[i].rtmemory_list[2]

\* The keys equal to a name in lower case, and the keys that start with it
ExactKeys(name) == {key \in Keys : Chars(key) = Lower(name)}
PrefixedKeys(name) == {key \in Keys : StartsWith(Chars(key), Lower(name))}

\* registerRtProcess went through and its entry, the last of the list, is
\* for one of `keys`
RegisteredOneOf(keys) ==
    /\ ret'.raised = NoError
    /\ Len(processing') = Len(processing) + 1
    /\ ~processing'[Len(processing')].callable
    /\ processing'[Len(processing')].process_name \in keys

\* C12: registerRtProcess with a name (not a function) registers the
\* predefined function whose key is the name in lower case, else one whose
\* key starts with it ("Int" gives "integrate"); when no key is equal to it
\* or starts with it the call raises NotImplementedError and the processing
\* list is as before.
C12_NameResolution ==
    [][(call'.op = "register" /\ ~call'.process.callable)
          => IF ExactKeys(call'.process.name) # {}
             THEN RegisteredOneOf(ExactKeys(call'.process.name))
             ELSE IF PrefixedKeys(call'.process.name) # {}
             THEN RegisteredOneOf(PrefixedKeys(call'.process.name))
             ELSE /\ ret'.raised = Raised("NotImplementedError", "process")
                  /\ processing' = processing]_vars

\* "Int" was registered as "integrate"
C12_Witness ==
    /\ ret.op = "register"
    /\ ret.raised = NoError
    /\ call.process.name = <<"I", "n", "t">>
    /\ ~processing[Len(processing)].callable
    /\ processing[Len(processing)].process_name = "integrate"

\* C13: registerRtProcess with a name that more than one key starts with
\* (the empty string) raises NotImplementedError and registers nothing.
C13_AmbiguousRejected ==
    [][(/\ call'.op = "register"
        /\ ~call'.process.callable
        /\ ExactKeys(call'.process.name) = {}
        /\ Cardinality(PrefixedKeys(call'.process.name)) > 1)
          => /\ ret'.raised = Raised("NotImplementedError", "process")
             /\ processing' = processing]_vars

\* What an entry is registered as: the function, by the characters of
\* its name, and its options
EntryKind(entry) ==
    [callable |-> entry.callable,
     name |-> IF entry.callable THEN entry.process_name
              ELSE Chars(entry.process_name),
     options |-> entry.options]

\* C14: the processing list only grows at its end: a successful
\* registerRtProcess adds one entry after the others and returns the new
\* length, and no call of append or registerRtProcess, successful or not,
\* removes an entry or moves one.
C14_AppendOnly ==
    [][/\ Len(processing') >= Len(processing)
       /\ \A i \in 1..Len(processing) :
             EntryKind(processing'[i]) = EntryKind(processing[i])
       /\ (call'.op = "register" /\ ret'.raised = NoError)
             => /\ Len(processing') = Len(processing) + 1
                /\ ret'.value = Len(processing) + 1
                /\ EntryKind(processing'[Len(processing')]).options
                     = call'.options
       /\ (call'.op # "register" \/ ret'.raised # NoError)
             => Len(processing') = Len(processing)]_vars

\* A second function was registered after the first and 2 was returned
C14_Witness ==
    /\ ret.op = "register"
    /\ ret.raised = NoError
    /\ ret.value = 2
    /\ Len(processing) = 2
    /\ EntryKind(processing[1]) # EntryKind(processing[2])

\* The time the left trim of a successful append moved the start by: one
\* sample interval for every sample that was held or added and is gone
TrimmedTime ==
    (Len(data.samples) + Len(ret'.trace.data.samples) - Len(data'.samples))
      * Period(stats.sampling_rate)

\* diff - 1 / sampling_rate of a packet against the buffer as it is
DriftOf(packet) ==
    packet.stats.starttime - EndTime(stats) - Period(stats.sampling_rate)

\* C15: on a buffer with data, an append of a packet that follows it
\* (-0.1 <= delta <= 0.1) moves the start time by diff - 1 / sampling_rate,
\* diff being packet start - buffer end, before the functions run and the
\* data is added (so the shift is there also when a function raises, and
\* the left trim counts from it); an append let through after a gap or
\* overlap does not move the start time but for the left trim.
C15_DriftCorrection ==
    [][(/\ call'.op = "append"
        /\ have_appended_data
        /\ SameChannel(call'.trace))
          => IF ~Early(call'.trace) /\ ~Late(call'.trace)
             THEN /\ ret'.raised = NoError
                       => stats'.starttime
                            = stats.starttime + DriftOf(call'.trace)
                                + TrimmedTime
                  /\ ret'.raised.why = "process"
                       => stats'.starttime
                            = stats.starttime + DriftOf(call'.trace)
             ELSE /\ ret'.raised = NoError
                       => stats'.starttime = stats.starttime + TrimmedTime
                  /\ ret'.raised # NoError
                       => stats'.starttime = stats.starttime]_vars

\* The second call added a packet that began 0.9 sample intervals after
\* the end of the first: the start time moved back by 0.1 of an interval
C15_Witness ==
    /\ calls = 2
    /\ ret.op = "append"
    /\ ret.seeded
    /\ ~call.gap_overlap_check
    /\ ret.raised = NoError
    /\ max_length = Nothing
    /\ stats.starttime = -(Period(stats.sampling_rate) \div 10)

\* The samples a successful append added at the end of the buffer (these
\* callers set no max_length, nothing is trimmed)
AddedSamples ==
    SubSeq(data'.samples, Len(data.samples) + 1, Len(data'.samples))

\* C16: a successful append returns the sample array of the packet after
\* the registered functions were applied in the order of the list, and
\* that array is what the call added to the buffer ("scale" with factor 2
\* and the packet 1, 2, 3 on a new RtTrace: 2, 4, 6 is returned and held).
C16_ReturnsProcessedArray ==
    [][(call'.op = "append" /\ ret'.raised = NoError)
          => ret'.trace
               = [dtype |-> data'.dtype, samples |-> AddedSamples]]_vars

\* C16, the part that holds: what a successful append returns is the
\* packet itself, a Trace, and the data of that Trace is the array the
\* call added to the buffer.
C16_ReturnedTraceHoldsArray ==
    [][(call'.op = "append" /\ ret'.raised = NoError)
          => /\ ret'.trace.stats = call'.trace.stats
             /\ ret'.trace.data
                  = [dtype |-> data'.dtype, samples |-> AddedSamples]]_vars

\* The trace given to _splitTrace holds L samples, and the i-th trace it
\* returned holds SplitCount(i)
SplitLength == Len(split.trace.data.samples)
SplitCount(i) == Len(split.traces[i].data.samples)

\* The traces _splitTrace returned are in the order of time, each starting
\* one sample interval after the end of the one before
SplitInSequence ==
    \A i \in 1..(split.num - 1) :
        split.traces[i + 1].stats.starttime
          = EndTime(split.traces[i].stats)
              + Period(split.trace.stats.sampling_rate)

\* C17: for a trace of L samples and 1 <= num <= L, _splitTrace returns
\* num traces, one after the other in time, whose sample counts differ by
\* at most one.
C17_NearEqualCounts ==
    (split.num > 0 /\ split.num <= SplitLength)
        => /\ Len(split.traces) = split.num
           /\ SplitInSequence
           /\ \A i, j \in 1..split.num : SplitCount(i) - SplitCount(j) <= 1

C19_EqualSplit ==
    (split.num > 0 /\ SplitLength % split.num = 0)
        => /\ Len(split.traces) = split.num
           /\ \A i \in 1..split.num :
                 /\ SplitCount(i) = SplitLength \div split.num
                 /\ split.traces[i].data.samples
                      = SubSeq(split.trace.data.samples,
                               (i - 1) * (SplitLength \div split.num) + 1,
                               i * (SplitLength \div split.num))

\* Six samples were split in three traces of two
C19_Witness ==
    /\ split.num = 3
    /\ SplitLength = 6
    /\ \A i \in 1..3 : SplitCount(i) = 2

\* What is left of L samples for the i-th trace when each trace before it
\* took `full` samples, and no more than `full` of it
Share(i, full) == Min2(full, Max2(0, SplitLength - (i - 1) * full))

C20_HistoryKept ==
    (ret.op = "append" /\ ret.raised = NoError)
        => /\ Len(stats.processing) = Len(processing)
           /\ \A i \in 1..Len(processing) :
                 stats.processing[i]
                   = [name |-> processing[i].process_name,
                      options |-> processing[i].options]

\* C21: append called with no gap_overlap_check argument checks, as its
\* documentation says ("default is True"): on a buffer with data, a packet
\* of the buffer's channel with delta < -0.1 or delta > 0.1 makes such a
\* call raise the overlap or gap error, and the packet is not added.
C21_DefaultChecks ==
    [][(/\ AppendPacket
        /\ have_appended_data
        /\ (Early(call'.trace) \/ Late(call'.trace)))
          => /\ ret'.raised.why \in {"overlap", "gap"}
             /\ data' = data]_vars

\* C22: RtTrace(max_length) with max_length zero or negative raises
\* ValueError and there is no object (no call is ever made on it); with a
\* positive max_length or none the object is there with that max_length,
\* have_appended_data not set, an empty processing list and no samples.
C22_Construction ==
    /\ ~alive => calls = 0
    /\ calls = 0
         => IF call.max_length # Nothing /\ call.max_length[1] <= 0
            THEN /\ ~alive
                 /\ ret.raised = Raised("ValueError", "max_length")
            ELSE /\ alive
                 /\ ret.raised = NoError
                 /\ max_length = call.max_length
                 /\ ~have_appended_data
                 /\ processing = <<>>
                 /\ data.samples = <<>>
                 /\ stats.npts = 0

\* RtTrace(max_length=0) raised ValueError
C22_Witness ==
    /\ calls = 0
    /\ call.op = "init"
    /\ call.max_length = <<0>>
    /\ ~alive
    /\ ret.raised.error = "ValueError"

\* C23: once data was appended, whatever appends followed (of packets that
\* follow the buffer or come after a gap or overlap let through, with or
\* without a left trim, successful or not), the header's npts is the
\* number of samples held and the end time is
\* starttime + (number of samples - 1) / sampling_rate; before the first
\* successful append no sample is held.
C23_CountAndEndConsistent ==
    IF have_appended_data
    THEN /\ stats.npts = Len(data.samples)
         /\ EndTime(stats)
              = stats.starttime
                  + (Len(data.samples) - 1) * Period(stats.sampling_rate)
    ELSE /\ data.samples = <<>>
         /\ stats.npts = 0

\* A packet let through after a gap was added to an RtTrace of 0.75 s and
\* the left trim left two samples, the start time moved on
C23_Witness ==
    /\ max_length = <<3>>
    /\ ret.op = "append"
    /\ ret.seeded
    /\ ret.gap_or_overlap
    /\ ret.raised = NoError
    /\ stats.npts = 2
    /\ Len(data.samples) = 2
    /\ stats.starttime > 0

\* C24: a successful append calls the function of every entry of the
\* processing list once, in the order of the list, the first on the data
\* of the packet and each other one on what the one before returned, and
\* what the last returned is the data of the trace append returns; an
\* append that raises in the sanity checks or for a gap or overlap with
\* gap_overlap_check on calls no function and changes no RtMemory and no
\* sample of the packet.
C24_PipelineOncePerPacket ==
    [][(call'.op = "append")
          => /\ ret'.raised = NoError
                  => /\ Len(ret'.invoked) = Len(processing)
                     /\ \A k \in 1..Len(ret'.invoked) :
                           /\ ret'.invoked[k].entry = k
                           /\ k = 1 => ret'.invoked[k].input.samples
                                         = call'.trace.data.samples
                           /\ k > 1 => ret'.invoked[k].input
                                         = ret'.invoked[k - 1].output
                           /\ k = Len(ret'.invoked)
                                => ret'.trace.data = ret'.invoked[k].output
                     /\ processing = <<>>
                          => ret'.trace.data.samples
                               = call'.trace.data.samples
             /\ ret'.raised.why \in HeaderFields \cup {"overlap", "gap"}
                  => /\ ret'.invoked = <<>>
                     /\ heap' = heap
                     /\ processing' = processing
                     /\ ret'.trace.data.samples
                          = call'.trace.data.samples]_vars

\* A packet went through two functions, the first of which changed it
C24_Witness ==
    /\ ret.op = "append"
    /\ ret.raised = NoError
    /\ Len(ret.invoked) = 2
    /\ ret.invoked[1].entry = 1
    /\ ret.invoked[2].entry = 2
    /\ ret.invoked[1].output # ret.invoked[1].input
    /\ ret.invoked[2].input = ret.invoked[1].output

\* C25: the first append and an append of a packet that follows the buffer
\* (-0.1 <= delta <= 0.1) find no gap or overlap and put no new RtMemory
\* in any list: every function called is handed the RtMemory objects of
\* its entry as the call before left them (as registerRtProcess made them
\* when there was no call before), and the lists are the same afterwards.
C25_MemoryCarriedOver ==
    [][(/\ call'.op = "append"
        /\ \/ ~have_appended_data
           \/ /\ SameChannel(call'.trace)
              /\ ~Early(call'.trace)
              /\ ~Late(call'.trace))
          => /\ ~ret'.gap_or_overlap
             /\ Len(processing') = Len(processing)
             /\ \A i \in 1..Len(processing) :
                   processing'[i].rtmemory_list = processing[i].rtmemory_list
             /\ \A k \in 1..Len(ret'.invoked) :
                   /\ Len(ret'.invoked[k].memory)
                        = Len(processing[k].rtmemory_list)
                   /\ \A n \in 1..Len(ret'.invoked[k].memory) :
                         ret'.invoked[k].memory[n]
                           = heap[processing[k].rtmemory_list[n]]]_vars

\* A packet that followed the buffer went through a function that was
\* handed the RtMemory an earlier append had written
C25_Witness ==
    /\ ret.op = "append"
    /\ ret.seeded
    /\ ~ret.gap_or_overlap
    /\ ret.raised = NoError
    /\ \E k \in 1..Len(ret.invoked) :
          \E n \in 1..Len(ret.invoked[k].memory) :
             /\ ret.invoked[k].memory[n].initialized
             /\ ret.invoked[k].memory[n].output # 0

\* C26: whatever is registered, a function that returns another dtype than
\* it is given included, after the first append of a packet P the append
\* of a packet that follows the buffer and has the id, sampling rate, calib
\* and dtype of P passes the sanity checks and is added to the buffer.
C26_SameDtypeAccepted ==
    [][(/\ call.op = "append"
        /\ ~ret.seeded
        /\ ret.raised = NoError
        /\ call'.op = "append"
        /\ call'.trace.stats.id = call.trace.stats.id
        /\ call'.trace.stats.sampling_rate = call.trace.stats.sampling_rate
        /\ call'.trace.stats.calib = call.trace.stats.calib
        /\ call'.trace.data.dtype = call.trace.data.dtype
        /\ ~Early(call'.trace)
        /\ ~Late(call'.trace))
          => /\ ret'.raised.why \notin HeaderFields
             /\ ret'.raised = NoError
             /\ Len(data'.samples)
                  = Len(data.samples) + Len(call'.trace.data.samples)]_vars

\* C27: when a packet of k samples that follows a buffer of n samples
\* (-0.1 <= delta <= 0.1) has been added, the buffer holds the last
\* min(n + k, max_samples) samples (all n + k with no max_length) of the n
\* samples it held, as they were and in order, followed by the k samples
\* of the packet after the registered functions; the corrected start time
\* puts the end of the buffer one sample interval before the packet, so
\* the buffer ends where the packet ends and nothing is dropped, doubled
\* or filled in between.
C27_ContiguousMerge ==
    [][(/\ call'.op = "append"
        /\ have_appended_data
        /\ SameChannel(call'.trace)
        /\ ~Early(call'.trace)
        /\ ~Late(call'.trace)
        /\ ret'.raised = NoError)
          => LET n == Len(data.samples)
                 k == Len(call'.trace.data.samples)
                 series == data.samples \o ret'.trace.data.samples
                 kept == IF max_length = Nothing THEN n + k
                         ELSE Min2(n + k,
                                   (max_length[1] * stats.sampling_rate + 2)
                                     \div 4)
             IN  /\ Len(ret'.trace.data.samples) = k
                 /\ Len(data'.samples) = kept
                 /\ data'.samples = SubSeq(series, n + k - kept + 1, n + k)
                 /\ stats'.npts = kept
                 /\ EndTime(stats') = EndTime(call'.trace.stats)
                 /\ stats'.starttime
                      = call'.trace.stats.starttime
                          - (kept - k) * Period(stats.sampling_rate)]_vars

\* Two samples that began 1.1 or 0.9 sample intervals after the end of
\* the buffer were added to an RtTrace of 2 s, which holds four samples and
\* starts off the grid of the first packet
C27_Witness ==
    /\ max_length = <<8>>
    /\ ret.op = "append"
    /\ ret.seeded
    /\ ~ret.gap_or_overlap
    /\ ret.raised = NoError
    /\ call.trace.stats.npts = 2
    /\ Len(data.samples) = 4
    /\ stats.sampling_rate = 2
    /\ stats.starttime % Period(2) # 0

\* The samples of the first i traces _splitTrace returned, one trace after
\* the other
RECURSIVE SplitJoined(_)
SplitJoined(i) ==
    IF i = 0 THEN <<>>
    ELSE SplitJoined(i - 1) \o split.traces[i].data.samples

\* C28: for every trace of L >= 1 samples and every num >= 1, the traces
\* _splitTrace returns do not overlap and are in the order of time, each
\* starts one sample interval after the end of the one before, and their
\* sample counts add up to L with no sample lost or doubled, also when num
\* does not divide L and when the last traces are empty.
C28_SplitPartitions ==
    split.num > 0
        => /\ Len(split.traces) = split.num
           /\ SplitInSequence
           /\ Len(SplitJoined(split.num)) = SplitLength
           /\ SplitJoined(split.num) = split.trace.data.samples

\* C28, the part that holds: the traces are in the order of time, none
\* starts before the end of the one before, and their samples, one trace
\* after the other, are the samples of the trace that was split.
C28_SamplesConserved ==
    split.num > 0
        => /\ Len(split.traces) = split.num
           /\ \A i \in 1..(split.num - 1) :
                 /\ split.traces[i + 1].stats.starttime
                      >= EndTime(split.traces[i].stats)
                 /\ SplitCount(i) > 0
                      => split.traces[i + 1].stats.starttime
                           > EndTime(split.traces[i].stats)
           /\ SplitJoined(split.num) = split.trace.data.samples

=============================================================================
